---- MODULE Spec2Model ----
(***************************************************************************)
(* Maybe / AsyncMaybe: two optional-value containers and their chainable   *)
(* combinators.  A run of the model is one chain: a container is built     *)
(* from a value and combinators are applied to it one after the other.     *)
(* A synchronous combinator is one step.  An AsyncMaybe combinator is a    *)
(* small process: the call, the resumption of its body once the source     *)
(* promise has resolved, the completion of the promises it waits for, and  *)
(* the settling of the promise of the container it returned.               *)
(***************************************************************************)
EXTENDS Integers, Sequences, FiniteSets, TLC

\* ------------------------------------------------------------------------
\* Bounds
\* ------------------------------------------------------------------------
MaxChain == 2   \* combinators applied in one chain
MaxLen == 2     \* longest array held by a container

\* ------------------------------------------------------------------------
\* JavaScript values.  Every value is a record with a type tag t.
\* ------------------------------------------------------------------------
Null == [t |-> "null"]
Undefined == [t |-> "undefined"]
Num(n) == [t |-> "number", n |-> n]
Str(s) == [t |-> "string", s |-> s]
Bool(b) == [t |-> "boolean", b |-> b]
Obj(f) == [t |-> "object", f |-> f]
Arr(e) == [t |-> "array", e |-> e]
\* a settled promise: fulfilled with value
PromiseOf(v) == [t |-> "Promise", value |-> v]
\* an exception thrown out of a call
Thrown(e) == [t |-> "throw", e |-> e]
\* a settled promise: rejected with the error e; awaiting it throws e
Rejected(e) == [t |-> "Promise", value |-> Thrown(e)]

\* typeof v
TypeOf(v) ==
  IF v.t \in {"null", "object", "array", "Maybe", "AsyncMaybe", "Promise"}
  THEN "object" ELSE v.t

\* Array.isArray(v)
IsArray(v) == v.t = "array"

\* await x: a promise gives the value it is fulfilled with, anything else itself
Await(x) == IF x.t = "Promise" THEN x.value ELSE x

\* the own enumerable properties { ...v } copies
Fields(v) ==
  IF v.t = "object" THEN v.f
  ELSE IF v.t \in {"Maybe", "AsyncMaybe"} THEN [k \in {"_value"} |-> v.value]
  ELSE <<>>

\* { ...obj, [key]: u }
Spread_onlyKey(obj, key, u) == Obj(key :> u)
Spread(obj, key, u) == Obj((key :> u) @@ Fields(obj))

\* utils: value == null
isNothing_strict(value) == value.t = "null"
isNothing(value) == value.t \in {"null", "undefined"}

isJust(value) == ~isNothing(value)

\* ------------------------------------------------------------------------
\* Containers
\* ------------------------------------------------------------------------
\* new Maybe(_value)
MaybeOf(v) == [t |-> "Maybe", value |-> v]
\* new AsyncMaybe(_value), _value a promise
AsyncMaybeOf(p) == [t |-> "AsyncMaybe", value |-> p]

Maybe_fromNullable(value) == MaybeOf(value)
Maybe_value(m) == m.value

AsyncMaybe_fromNullable(value) == AsyncMaybeOf(PromiseOf(value))
AsyncMaybe_fromPromise(promise) == AsyncMaybeOf(promise)
AsyncMaybe_fromMaybe_collapse(maybe) ==
  AsyncMaybeOf(PromiseOf(IF isNothing(Maybe_value(maybe)) THEN Null
                         ELSE Maybe_value(maybe)))
AsyncMaybe_fromMaybe(maybe) == AsyncMaybeOf(PromiseOf(Maybe_value(maybe)))
AsyncMaybe_value(m) == m.value

\* ------------------------------------------------------------------------
\* Callbacks are data: a body computing a value from the argument, and the
\* shape in which the callback hands that value back.
\* ------------------------------------------------------------------------
Body(b, v) ==
  CASE b = "id" -> v
    [] b = "inc" -> IF v.t = "number" THEN Num(v.n + 1) ELSE v
    [] b = "null" -> Null
    [] b = "undefined" -> Undefined
    [] b = "one" -> Num(1)
    [] b = "evenTimes10" ->
         IF v.t = "number" /\ v.n % 2 = 0 THEN Num(v.n * 10) ELSE Null
    [] b = "oddOrUndefined" ->
         IF v.t = "number" /\ v.n % 2 = 1 THEN v ELSE Undefined
    \* () => { throw new Error("boom") }
    [] b = "throw" -> Thrown("boom")

Wrap(shape, x) ==
  CASE x.t = "throw" ->
         \* an async callback that throws hands back a rejected promise
         IF shape \in {"PromiseRaw", "PromiseMaybe", "PromiseAsyncMaybe"}
         THEN Rejected(x.e) ELSE x
    [] shape = "raw" -> x
    [] shape = "Maybe" -> Maybe_fromNullable(x)
    [] shape = "AsyncMaybe" -> AsyncMaybe_fromNullable(x)
    [] shape = "PromiseRaw" -> PromiseOf(x)
    [] shape = "PromiseMaybe" -> PromiseOf(Maybe_fromNullable(x))
    [] shape = "PromiseAsyncMaybe" -> PromiseOf(AsyncMaybe_fromNullable(x))
    \* a container whose payload is itself a container
    [] shape = "AsyncMaybeOfMaybe" ->
         AsyncMaybe_fromNullable(Maybe_fromNullable(x))
    [] shape = "MaybeOfAsyncMaybe" ->
         Maybe_fromNullable(AsyncMaybe_fromNullable(x))

Cb(shape, body) == [shape |-> shape, body |-> body]
Apply(fn, v) == Wrap(fn.shape, Body(fn.body, v))

\* predicates handed to filter
Holds(p, v) ==
  CASE p = "always" -> TRUE
    [] p = "never" -> FALSE
    [] p = "isNumber" -> v.t = "number"
    [] p = "isEven" -> v.t = "number" /\ v.n % 2 = 0
    \* (v) => typeof v === "object" && v !== null, the guard extend filters by
    [] p = "isObject" -> TypeOf(v) = "object" /\ v.t # "null"
    \* Array.isArray, the guard the filterMap of src/Maybe.ts calls when with
    [] p = "isArray" -> IsArray(v)
    \* a predicate that throws gives no answer
    [] p = "throws" -> FALSE

\* the predicate throws instead of answering
PredicateThrows(p) == p = "throws"

\* one invocation of a callback, as recorded by the model
Call(fn, v) == [fn |-> fn, arg |-> v]

\* what a synchronous method call does: the value it returns (or the
\* exception it throws) and the callback invocations it made, in order
R(ret, calls) == [ret |-> ret, calls |-> calls]

\* ------------------------------------------------------------------------
\* Maybe (the synchronous container)
\* ------------------------------------------------------------------------
\* m.map((u) => ({ ...obj, [key]: u })); m is what the property function
\* returned: on an AsyncMaybe the map is AsyncMaybe.map, whose promise is
\* given here by what it settles to
Maybe_map_spread(m, obj, key) ==
  IF m.t = "AsyncMaybe"
  THEN LET u == Await(AsyncMaybe_value(m))
       IN AsyncMaybe_fromPromise(PromiseOf(
            IF u.t = "throw" \/ isNothing(u) THEN u ELSE Spread(obj, key, u)))
  ELSE IF isNothing(m.value) THEN MaybeOf(m.value)
  ELSE MaybeOf(Spread(obj, key, m.value))

Maybe_map(m, fn) ==
  IF isNothing(m.value) THEN R(MaybeOf(m.value), <<>>)
  ELSE R(MaybeOf(Apply(fn, m.value)), <<Call(fn, m.value)>>)

Maybe_flatMap(m, fn) ==
  IF isNothing(m.value) THEN R(MaybeOf(m.value), <<>>)
  ELSE R(Apply(fn, m.value), <<Call(fn, m.value)>>)

\* m.flatMap((obj) => fn(base).map((u) => ({ ...obj, [key]: u })))
\* acc is an AsyncMaybe once an entry of assign has returned one: the fold
\* goes on with AsyncMaybe.flatMap, which unwraps what the callback returns
Maybe_flatMap_extender_lifted(m, base, key, fn) ==
  LET v == Await(AsyncMaybe_value(m))
  IN IF v.t = "throw" \/ isNothing(v)
     THEN R(AsyncMaybe_fromPromise(PromiseOf(v)), <<>>)
     ELSE LET out == Maybe_map_spread(Apply(fn, base), v, key)
          IN R(AsyncMaybe_fromPromise(PromiseOf(
                 IF out.t = "AsyncMaybe" THEN Await(AsyncMaybe_value(out))
                 ELSE Maybe_value(out))),
               <<Call(fn, base)>>)

Maybe_flatMap_extender(m, base, key, fn) ==
  IF m.t = "AsyncMaybe" THEN Maybe_flatMap_extender_lifted(m, base, key, fn)
  ELSE IF isNothing(m.value) THEN R(MaybeOf(m.value), <<>>)
  ELSE R(Maybe_map_spread(Apply(fn, base), m.value, key), <<Call(fn, base)>>)

\* m.flatMap((x) => f(x).flatMap(g))
Maybe_flatMap_nested_dropInner(m, f, g) == Maybe_flatMap(m, f)
Maybe_flatMap_nested(m, f, g) ==
  IF isNothing(m.value) THEN R(MaybeOf(m.value), <<>>)
  ELSE LET inner == Maybe_flatMap(Apply(f, m.value), g)
       IN R(inner.ret, <<Call(f, m.value)>> \o inner.calls)

Maybe_withDefault_nullOnly(m, defaultValue) ==
  IF m.value.t = "null" THEN MaybeOf(defaultValue) ELSE m
Maybe_withDefault(m, defaultValue) ==
  IF isNothing(m.value) THEN MaybeOf(defaultValue) ELSE m

Maybe_getOrElse_falsy(m, defaultValue) ==
  IF isNothing(m.value) \/ m.value \in {Num(0), Str(""), Bool(FALSE)}
  THEN defaultValue ELSE m.value
Maybe_getOrElse(m, defaultValue) ==
  IF isNothing(m.value) THEN defaultValue ELSE m.value

Maybe_effect_likeMap(m, fn) ==
  IF isJust(m.value) THEN R(MaybeOf(Apply(fn, m.value)), <<Call(fn, m.value)>>)
  ELSE R(m, <<>>)
Maybe_effect(m, fn) ==
  IF isJust(m.value) THEN R(m, <<Call(fn, m.value)>>) ELSE R(m, <<>>)

Maybe_filter_undefined(m, predicate) ==
  IF isNothing(m.value) THEN R(MaybeOf(Null), <<>>)
  ELSE IF ~Holds(predicate, m.value)
       THEN R(MaybeOf(Undefined), <<Call(predicate, m.value)>>)
       ELSE R(MaybeOf(m.value), <<Call(predicate, m.value)>>)
Maybe_filter(m, predicate) ==
  IF isNothing(m.value) THEN R(MaybeOf(Null), <<>>)
  ELSE IF ~Holds(predicate, m.value)
       THEN R(MaybeOf(Null), <<Call(predicate, m.value)>>)
       ELSE R(MaybeOf(m.value), <<Call(predicate, m.value)>>)

Maybe_extend_noTypeCheck(m, key, fn) ==
  Maybe_flatMap_extender(m, m.value, key, fn)
Maybe_extend(m, key, fn) ==
  IF isNothing(m.value) \/ TypeOf(m.value) # "object"
  THEN R(MaybeOf(Null), <<>>)
  ELSE Maybe_flatMap_extender(m, m.value, key, fn)

\* Object.entries(fns).reduce(..., new Maybe(obj)); fns is the sequence of
\* the entries [k, fn] in the order Object.entries lists them
RECURSIVE Maybe_assign_reduce(_, _, _)
Maybe_assign_reduce(acc, obj, entries) ==
  IF entries = <<>> THEN acc
  ELSE LET e == Head(entries)
           step == Maybe_flatMap_extender(acc.ret, obj, e.k, e.fn)
       IN Maybe_assign_reduce(R(step.ret, acc.calls \o step.calls),
                              obj, Tail(entries))

Maybe_assign(m, fns) ==
  IF isNothing(m.value) \/ TypeOf(m.value) # "object"
  THEN R(MaybeOf(Null), <<>>)
  ELSE Maybe_assign_reduce(R(MaybeOf(m.value), <<>>), m.value, fns)

\* the for .. of loop of filterMap
RECURSIVE Maybe_filterMap_loop(_, _, _, _)
Maybe_filterMap_loop(els, fn, result, calls) ==
  IF els = <<>> THEN R(MaybeOf(Arr(result)), calls)
  ELSE LET el == Head(els)
           maybeVal == Apply(fn, el)
           calls2 == Append(calls, Call(fn, el))
       IN IF maybeVal.t # "Maybe" THEN R(Maybe_fromNullable(Null), calls2)
          ELSE IF isJust(Maybe_value(maybeVal))
               THEN Maybe_filterMap_loop(Tail(els), fn,
                      Append(result, Maybe_value(maybeVal)), calls2)
               ELSE Maybe_filterMap_loop(Tail(els), fn, result, calls2)

Maybe_filterMap(m, fn) ==
  IF isNothing(m.value) THEN R(MaybeOf(Null), <<>>)
  ELSE Maybe_filterMap_loop(m.value.e, fn, <<>>, <<>>)

\* ------------------------------------------------------------------------
\* Maybe as written in src/Maybe.ts (from / of / when; filterMap throws)
\* ------------------------------------------------------------------------
RECURSIVE MaybeTs_from(_)
MaybeTs_from(value) ==
  IF value.t = "Maybe" THEN MaybeTs_from(value.value) ELSE MaybeOf(value)

MaybeTs_of(value) == MaybeOf(value)

MaybeTs_isNothing(value) == value.t = "null" \/ value.t = "undefined"

\* m.map((newValue) => ({ ...value, [key]: newValue }))
MaybeTs_map_spread(m, value, key) ==
  IF MaybeTs_isNothing(m.value) THEN MaybeOf(m.value)
  ELSE MaybeOf(Spread(value, key, m.value))

MaybeTs_map(m, fn) ==
  IF MaybeTs_isNothing(m.value) THEN R(MaybeOf(m.value), <<>>)
  ELSE R(MaybeOf(Apply(fn, m.value)), <<Call(fn, m.value)>>)

MaybeTs_flatMap(m, fn) ==
  IF MaybeTs_isNothing(m.value) THEN R(MaybeOf(m.value), <<>>)
  ELSE R(Apply(fn, m.value), <<Call(fn, m.value)>>)

\* m.flatMap((x) => f(x).flatMap(g))
MaybeTs_flatMap_nested(m, f, g) ==
  IF MaybeTs_isNothing(m.value) THEN R(MaybeOf(m.value), <<>>)
  ELSE LET inner == MaybeTs_flatMap(Apply(f, m.value), g)
       IN R(inner.ret, <<Call(f, m.value)>> \o inner.calls)

\* new Maybe(this._value ?? defaultValue)
MaybeTs_withDefault(m, defaultValue) ==
  MaybeOf(IF MaybeTs_isNothing(m.value) THEN defaultValue ELSE m.value)

MaybeTs_when(m, guard) ==
  IF MaybeTs_isNothing(m.value) \/ ~Holds(guard, m.value)
  THEN MaybeTs_from(IF MaybeTs_isNothing(m.value) THEN m.value ELSE Undefined)
  ELSE MaybeTs_from(m.value)

\* arr.map(fn): every element is mapped before any result is looked at
MaybeTs_filterMap_mapped(arr, fn) == [i \in 1..Len(arr) |-> Apply(fn, arr[i])]
MaybeTs_filterMap_calls(arr, fn) == [i \in 1..Len(arr) |-> Call(fn, arr[i])]

\* .map((v) => { if (!(v instanceof Maybe)) throw ...; return v.value() })
\* .filter((v) => v !== null && v !== undefined)
MaybeTs_filterMap_values(mapped) ==
  IF \E i \in 1..Len(mapped) : mapped[i].t # "Maybe"
  THEN Thrown("filterMap callback must return a Maybe instance")
  ELSE Arr(SelectSeq([i \in 1..Len(mapped) |-> mapped[i].value],
                     LAMBDA v: ~MaybeTs_isNothing(v)))

MaybeTs_filterMap(m, fn) ==
  LET w == MaybeTs_when(m, "isArray")
  IN IF MaybeTs_isNothing(w.value) THEN R(MaybeOf(w.value), <<>>)
     ELSE LET vs == MaybeTs_filterMap_values(
                      MaybeTs_filterMap_mapped(w.value.e, fn))
              calls == MaybeTs_filterMap_calls(w.value.e, fn)
          IN IF vs.t = "throw" THEN R(vs, calls) ELSE R(MaybeOf(vs), calls)

MaybeTs_extend(m, key, fn) ==
  IF TypeOf(m.value) # "object" /\ m.value.t # "null"
  THEN R(MaybeTs_from(Undefined), <<>>)
  ELSE IF MaybeTs_isNothing(m.value) THEN R(MaybeOf(m.value), <<>>)
  ELSE R(MaybeTs_map_spread(Apply(fn, m.value), m.value, key),
         <<Call(fn, m.value)>>)

\* ------------------------------------------------------------------------
\* AsyncMaybe: what each method's body does between two awaits
\* ------------------------------------------------------------------------
\* what the promise of an async function is settled with when the function
\* returns x (a returned promise is adopted) or throws x
AsyncReturn_flatten(x) ==
  IF x.t = "Promise" THEN x
  ELSE IF x.t = "Maybe" THEN PromiseOf(x.value)
  ELSE IF x.t = "AsyncMaybe" THEN x.value
  ELSE PromiseOf(x)
AsyncReturn(x) == IF x.t = "Promise" THEN x ELSE PromiseOf(x)

\* map: the body after `await this._value`; an exception of fn passes
\* through map and value()
AsyncMaybe_map_body(v, fn) ==
  LET r == Maybe_map(Maybe_fromNullable(v), fn)
  IN R(Maybe_value(r.ret), r.calls)

\* flatMap: what `out = await fn(v)` is turned into
AsyncMaybe_flatMap_normalize_noMaybe(out) ==
  LET o == Await(out)
  IN IF o.t = "AsyncMaybe" THEN Await(AsyncMaybe_value(o)) ELSE o
AsyncMaybe_flatMap_normalize(out) ==
  LET o == Await(out)
  IN IF o.t = "AsyncMaybe" THEN Await(AsyncMaybe_value(o))
     ELSE IF o.t = "Maybe" THEN Maybe_value(o)
     ELSE o

\* filter: the body after `await this._value`
AsyncMaybe_filter_body_collapse(v, predicate) ==
  IF isNothing(v) THEN R(Null, <<>>)
  ELSE IF PredicateThrows(predicate)
  THEN R(Thrown("boom"), <<Call(predicate, v)>>)
  ELSE IF Holds(predicate, v) THEN R(v, <<Call(predicate, v)>>)
  ELSE R(Null, <<Call(predicate, v)>>)
AsyncMaybe_filter_body(v, predicate) ==
  IF isNothing(v) THEN R(v, <<>>)
  ELSE IF PredicateThrows(predicate)
  THEN R(Thrown("boom"), <<Call(predicate, v)>>)
  ELSE IF Holds(predicate, v) THEN R(v, <<Call(predicate, v)>>)
  ELSE R(Null, <<Call(predicate, v)>>)

\* extend: the value the flatMap that follows the filter receives
AsyncMaybe_extend_filtered(v) == AsyncMaybe_filter_body(v, "isObject").ret

\* extend: lifted, for the awaited result of fn
AsyncMaybe_extend_lift(out) ==
  IF out.t = "AsyncMaybe" THEN out
  ELSE IF out.t = "Maybe" THEN AsyncMaybe_fromMaybe(out)
  ELSE AsyncMaybe_fromNullable(out)

\* extend: the value the inner async function returns
AsyncMaybe_extend_merge_keepSentinel(obj, key, newVal) ==
  IF isNothing(newVal) THEN newVal ELSE Spread(obj, key, newVal)
AsyncMaybe_extend_merge(obj, key, newVal) ==
  IF isNothing(newVal) THEN Null ELSE Spread(obj, key, newVal)

\* extend: from the awaited result of fn to the value of the new container
AsyncMaybe_extend_settle(obj, key, out) ==
  LET awaited == Await(out)
      lifted == AsyncMaybe_extend_lift(awaited)
      newVal == Await(AsyncMaybe_value(lifted))
  IN AsyncMaybe_flatMap_normalize(
       AsyncMaybe_fromPromise(
         PromiseOf(IF awaited.t = "throw" THEN awaited
                   ELSE IF newVal.t = "throw" THEN newVal
                   ELSE AsyncMaybe_extend_merge(obj, key, newVal))))

\* Object.entries(fns).map(async ...) / raw.map(async ...): the indices of
\* the entries whose async function is started by the map, out of n
IssuedByMap_firstOnly(n) == {i \in 1..n : i = 1}
IssuedByMap(n) == 1..n

\* assign: await Promise.resolve(fn(obj)).then((res) => res.value());
\* res.value is not a function unless res is a Maybe or an AsyncMaybe
AsyncMaybe_assign_taskResult(out) ==
  LET res == Await(out)
  IN IF res.t = "throw" THEN res
     ELSE IF res.t \notin {"Maybe", "AsyncMaybe"} THEN Thrown("TypeError")
     ELSE Await(res.value)

\* Promise.all(tasks): the results by task index; doneOrder is the order in
\* which the tasks completed
PromiseAll_byCompletion(results, doneOrder) ==
  [i \in 1..Len(doneOrder) |-> results[doneOrder[i]]]
PromiseAll(results, doneOrder) == results

\* Promise.all(tasks) when a task rejects: it rejects with the error of the
\* task that rejected first; <<>> when no task rejects
PromiseAll_rejections(values, doneOrder) ==
  SelectSeq([i \in 1..Len(doneOrder) |-> values[doneOrder[i]]],
            LAMBDA v: v.t = "throw")

\* { ...obj, ...Object.fromEntries(resolved) }
RECURSIVE AsyncMaybe_assign_spread(_, _)
AsyncMaybe_assign_spread(obj, resolved) ==
  IF resolved = <<>> THEN obj
  ELSE AsyncMaybe_assign_spread(
         Spread(obj, Head(resolved).k, Head(resolved).v), Tail(resolved))

\* assign: the .then callback of Promise.all(tasks)
AsyncMaybe_assign_merge_noShortCircuit(obj, resolved) ==
  AsyncMaybe_assign_spread(obj, resolved)
AsyncMaybe_assign_merge(obj, resolved) ==
  IF \E i \in 1..Len(resolved) : isNothing(resolved[i].v) THEN Null
  ELSE AsyncMaybe_assign_spread(obj, resolved)

\* filterMap: what a present value that is not an array is turned into
AsyncMaybe_filterMap_invalidShape_empty == Arr(<<>>)
AsyncMaybe_filterMap_invalidShape == Null

\* withDefault: the body after `await this._value`
AsyncMaybe_withDefault_body(v, defaultValue) ==
  Maybe_value(Maybe_withDefault(Maybe_fromNullable(v), defaultValue))

\* getOrElse: `await this._value` throws when the promise is rejected
AsyncMaybe_getOrElse_swallow(v, defaultValue) ==
  IF v.t = "throw" THEN defaultValue
  ELSE Maybe_getOrElse(Maybe_fromNullable(v), defaultValue)
AsyncMaybe_getOrElse(v, defaultValue) ==
  IF v.t = "throw" THEN v
  ELSE Maybe_getOrElse(Maybe_fromNullable(v), defaultValue)

\* first: if (isJust(maybeValue)) return maybeValue;
AsyncMaybe_first_found_any(maybeValue) == TRUE
AsyncMaybe_first_found(maybeValue) == isJust(maybeValue)

\* effect: the body after `await this._value`
AsyncMaybe_effect_body(v, fn) ==
  IF isJust(Maybe_value(Maybe_fromNullable(v)))
  THEN LET out == Await(Apply(fn, v))
       IN R(IF out.t = "throw" THEN out ELSE v, <<Call(fn, v)>>)
  ELSE R(v, <<>>)

\* filterMap: values.filter((v) => v != null)
AsyncMaybe_filterMap_keep(values) ==
  Arr(SelectSeq(values, LAMBDA v: ~isNothing(v)))

\* ------------------------------------------------------------------------
\* The inputs of a chain
\* ------------------------------------------------------------------------
Elems == {Num(1), Num(2)}

RECURSIVE SeqsUpTo(_, _)
SeqsUpTo(S, k) ==
  IF k = 0 THEN {<<>>}
  ELSE LET shorter == SeqsUpTo(S, k - 1)
       IN shorter \cup {Append(q, x) : q \in shorter, x \in S}

Arrays == {Arr(q) : q \in SeqsUpTo(Elems, MaxLen)}

Records == {Obj([id |-> Num(1)]), Obj([a |-> Num(0)])}

Primitives == {Num(0), Num(1), Num(2), Str(""), Bool(FALSE)}

Inputs == {Null, Undefined} \cup Primitives \cup Records \cup Arrays

Keys == {"a", "b"}

MapFns == {Cb("raw", "inc"), Cb("raw", "null")}

Predicates == {"always", "never", "isEven"}

\* callbacks of the synchronous flatMap, extend and assign return a Maybe
MaybeFns == {Cb("Maybe", b) : b \in {"inc", "null", "undefined"}}
PropertyFns == {Cb("Maybe", b) : b \in {"one", "null", "undefined"}}

\* the synchronous filterMap is also handed callbacks that break its contract
ElementFns ==
  {Cb(sh, b) : sh \in {"Maybe", "raw", "AsyncMaybe"},
               b \in {"evenTimes10", "oddOrUndefined", "id"}}

Shapes ==
  {"raw", "Maybe", "AsyncMaybe", "PromiseRaw", "PromiseMaybe",
   "PromiseAsyncMaybe"}

AsyncFns ==
  {Cb(sh, b) : sh \in Shapes, b \in {"inc", "null", "undefined"}}
  \cup {Cb("raw", "throw"), Cb("PromiseRaw", "throw")}

AsyncPropertyFns ==
  {Cb(sh, b) : sh \in {"raw", "Maybe", "AsyncMaybe", "PromiseMaybe"},
               b \in {"one", "null", "undefined"}}
  \cup {Cb("raw", "throw")}

AsyncElementFns ==
  {Cb(sh, b) : sh \in {"raw", "Maybe", "AsyncMaybe", "PromiseAsyncMaybe"},
               b \in {"evenTimes10", "oddOrUndefined", "id"}}
  \cup {Cb("raw", "throw")}

\* the entries of the fns object of assign, in Object.entries order
EntriesOf(fns) ==
  {<<[k |-> k1, fn |-> f1]>> : k1 \in Keys, f1 \in fns}
  \cup {e \in {<<[k |-> k1, fn |-> f1], [k |-> k2, fn |-> f2]>> :
                   k1 \in Keys, k2 \in Keys, f1 \in fns, f2 \in fns} :
          e[1].k # e[2].k}

AssignFns == {Cb("Maybe", "one"), Cb("Maybe", "null"), Cb("Maybe", "undefined")}

AsyncAssignFns ==
  {Cb("Maybe", "one"), Cb("AsyncMaybe", "undefined"), Cb("raw", "one"),
   Cb("PromiseMaybe", "throw")}

\* flatMap callbacks returning a container of a container
NestedFns ==
  {Cb("AsyncMaybeOfMaybe", "one"), Cb("MaybeOfAsyncMaybe", "one"),
   Cb("AsyncMaybeOfMaybe", "null")}

\* the containers the callback of first chooses its candidates from
Candidates ==
  {MaybeOf(Null), AsyncMaybe_fromNullable(Num(1)),
   AsyncMaybe_fromNullable(Num(2))}

\* the callbacks of first: each returns a fixed list of distinct candidates
CandidateFns ==
  {[shape |-> "list", body |-> "candidates", list |-> q] :
     q \in {c \in SeqsUpTo(Candidates, MaxLen) :
              \A i \in 1..Len(c), j \in 1..Len(c) : i # j => c[i] # c[j]}}

\* the free functions of the combinator layer applied to a Maybe, with the
\* arguments they are handed
FunctionalMaybeCalls ==
  {[name |-> "map", arg |-> [fn |-> Cb("raw", "inc")]],
   [name |-> "flatMap", arg |-> [fn |-> Cb("Maybe", "inc")]],
   [name |-> "flatMap", arg |-> [fn |-> Cb("AsyncMaybe", "inc")]],
   [name |-> "filter", arg |-> [predicate |-> "isEven"]],
   [name |-> "filterMap", arg |-> [fn |-> Cb("Maybe", "evenTimes10")]],
   [name |-> "extend", arg |-> [key |-> "a", fn |-> Cb("Maybe", "one")]],
   [name |-> "extend", arg |-> [key |-> "a", fn |-> Cb("AsyncMaybe", "one")]],
   [name |-> "assign",
    arg |-> [fns |-> <<[k |-> "a", fn |-> Cb("Maybe", "one")]>>]],
   [name |-> "assign",
    arg |-> [fns |-> <<[k |-> "a", fn |-> Cb("AsyncMaybe", "one")],
                       [k |-> "b", fn |-> Cb("AsyncMaybe", "one")]>>]],
   [name |-> "withDefault", arg |-> [defaultValue |-> Num(9)]],
   [name |-> "getOrElse", arg |-> [defaultValue |-> Num(9)]],
   [name |-> "effect", arg |-> [fn |-> Cb("raw", "inc")]]}

\* the free functions applied to an AsyncMaybe
FunctionalAsyncCalls ==
  {[name |-> "map", arg |-> [fn |-> Cb("raw", "inc")]],
   [name |-> "flatMap", arg |-> [fn |-> Cb("PromiseMaybe", "inc")]],
   [name |-> "filter", arg |-> [predicate |-> "isEven"]],
   [name |-> "filterMap", arg |-> [fn |-> Cb("AsyncMaybe", "evenTimes10")]],
   [name |-> "extend", arg |-> [key |-> "a", fn |-> Cb("AsyncMaybe", "one")]],
   [name |-> "assign",
    arg |-> [fns |-> <<[k |-> "a", fn |-> Cb("Maybe", "one")]>>]],
   [name |-> "withDefault", arg |-> [defaultValue |-> Num(9)]],
   [name |-> "getOrElse", arg |-> [defaultValue |-> Num(9)]],
   [name |-> "effect", arg |-> [fn |-> Cb("raw", "inc")]]}

\* callbacks that throw, or return a promise that is rejected
ThrowingFns == {Cb("raw", "throw"), Cb("PromiseRaw", "throw")}

AsyncMapFns == MapFns \cup ThrowingFns

AsyncPredicates == Predicates \cup {"throws"}

\* effect is handed functions whose result is ignored
EffectFns == {Cb("raw", "inc"), Cb("raw", "null")}
AsyncEffectFns == EffectFns \cup {Cb("PromiseRaw", "undefined")} \cup ThrowingFns

\* the default values handed to withDefault, and to getOrElse
Defaults == {Num(9), Null}
ElseDefaults == {Num(9)}

\* a value extend and assign are applied to: anything but an array
NotArray(v) == v.t # "array"

\* ------------------------------------------------------------------------
\* State
\* ------------------------------------------------------------------------
VARIABLES
  cls,     \* the class of the chain: "Maybe", "MaybeTs" or "AsyncMaybe"
  cur,     \* the container the chain has reached, or the exception thrown
  pc,      \* "ready", "thrown", "done" (unwrapped), or where the running
           \* AsyncMaybe method is
  got,     \* what the last value() / getOrElse on the chain returned
  intact,  \* no combinator so far has changed the value of its receiver
  n,       \* combinators applied so far
  last,    \* the last combinator applied: op, receiver's value, args, calls
  prev,    \* the one before, in brief
  frame,   \* the AsyncMaybe method that is running
  tasks,   \* assign / filterMap: the async functions started by the map
  events,  \* assign / filterMap: starts and completions, in order
  via      \* how the last combinator was called: "method" for m.op(args),
           \* the name of the free function for op(args)(m)

vars == <<via, cls, cur, pc, got, intact, n, last, prev, frame, tasks, events>>

NoStep == [op |-> "none", input |-> Null, arg |-> [none |-> TRUE],
           calls |-> <<>>]
Step(op, input, arg, calls) ==
  [op |-> op, input |-> input, arg |-> arg, calls |-> calls]

NoFrame == [op |-> "none", input |-> Null, arg |-> [none |-> TRUE],
            out |-> Null, calls |-> <<>>]

\* what the chain remembers of a combinator once the next one is called:
\* the operation, whether its receiver held a record, whether the promise of
\* its receiver was rejected, and which kind of value its callback computed
\* ("none" when it has no single callback)
Brief(s) ==
  [op |-> s.op,
   onRecord |-> s.input.t = "object",
   rejected |-> s.input.t = "throw",
   payload |-> IF s.op \in {"map", "flatMap", "extend"} /\ s.input.t # "throw"
               THEN LET x == Body(s.arg.fn.body, s.input)
                    IN IF x.t \in {"null", "undefined", "throw"} THEN x.t
                       ELSE "present"
               ELSE "none"]

\* what the object obj holds once { ...obj, [key]: u } has been evaluated:
\* the spread copies, it does not write to obj
Spread_leaves_assigned(obj, key, u) == Spread(obj, key, u)
Spread_leaves(obj, key, u) == obj

\* the value held by the receiver of a combinator once the combinator has
\* run: _value is never assigned, and only extend and assign touch the
\* record, by spreading it
ReceiverAfter(op, v, arg) ==
  IF v.t # "object" THEN v
  ELSE IF op = "extend" /\ isJust(Body(arg.fn.body, v))
  THEN Spread_leaves(v, arg.key, Body(arg.fn.body, v))
  ELSE IF op = "assign" /\ isJust(Body(arg.fns[1].fn.body, v))
  THEN Spread_leaves(v, arg.fns[1].k, Body(arg.fns[1].fn.body, v))
  ELSE v

\* the chain starts from a container built by one of the static methods;
\* last records which, and from what
Init ==
  /\ cls \in {"Maybe", "MaybeTs", "AsyncMaybe"}
  /\ \E v \in Inputs :
       \/ /\ cls = "Maybe"
          /\ cur = Maybe_fromNullable(v)
          /\ last = Step("fromNullable", v, [none |-> TRUE], <<>>)
       \/ /\ cls = "MaybeTs"
          /\ cur = MaybeTs_from(v)
          /\ last = Step("from", v, [none |-> TRUE], <<>>)
       \/ /\ cls = "MaybeTs"
          /\ cur = MaybeTs_of(v)
          /\ last = Step("of", v, [none |-> TRUE], <<>>)
       \/ /\ cls = "AsyncMaybe"
          /\ cur = AsyncMaybe_fromNullable(v)
          /\ last = Step("fromNullable", v, [none |-> TRUE], <<>>)
       \/ /\ cls = "AsyncMaybe"
          /\ cur = AsyncMaybe_fromMaybe(Maybe_fromNullable(v))
          /\ last = Step("fromMaybe", v, [none |-> TRUE], <<>>)
  /\ pc = "ready"
  /\ via = "method"
  /\ got = Undefined
  /\ intact = TRUE
  /\ n = 0
  /\ prev = Brief(NoStep)
  /\ frame = NoFrame
  /\ tasks = <<>>
  /\ events = <<>>

\* ------------------------------------------------------------------------
\* Synchronous combinators: one step each
\* ------------------------------------------------------------------------
\* the method returned (or threw) r
Returned(op, arg, r) ==
  /\ cur' = r.ret
  /\ pc' = IF r.ret.t = "throw" THEN "thrown"
           ELSE IF r.ret.t = "Maybe" THEN "ready"
           ELSE "lifted"
  /\ n' = n + 1
  /\ prev' = Brief(last)
  /\ last' = Step(op, cur.value, arg, r.calls)
  /\ intact' = (intact /\ ReceiverAfter(op, cur.value, arg) = cur.value)
  /\ UNCHANGED <<cls, got, frame, tasks, events>>

CanCall(c) == cls = c /\ pc = "ready" /\ n < MaxChain

\* value() or getOrElse returned ret; the container is still there, and
\* can be unwrapped again
Unwrapped(op, input, arg, ret) ==
  /\ pc \in {"ready", "done"}
  /\ got' = ret
  /\ pc' = "done"
  /\ prev' = Brief(last)
  /\ last' = Step(op, input, arg, <<>>)
  /\ UNCHANGED <<cls, cur, intact, n, frame, tasks, events>>

MaybeMap(fn) ==
  /\ CanCall("Maybe")
  /\ Returned("map", [fn |-> fn], Maybe_map(cur, fn))

MaybeFlatMap(fn) ==
  /\ CanCall("Maybe")
  /\ Returned("flatMap", [fn |-> fn], Maybe_flatMap(cur, fn))

MaybeFlatMapNested(f, g) ==
  /\ CanCall("Maybe")
  /\ Returned("flatMapNested", [f |-> f, g |-> g],
              Maybe_flatMap_nested(cur, f, g))

MaybeWithDefault(defaultValue) ==
  /\ CanCall("Maybe")
  /\ Returned("withDefault", [defaultValue |-> defaultValue],
              R(Maybe_withDefault(cur, defaultValue), <<>>))

MaybeEffect(fn) ==
  /\ CanCall("Maybe")
  /\ Returned("effect", [fn |-> fn], Maybe_effect(cur, fn))

MaybeGetOrElse(defaultValue) ==
  /\ cls = "Maybe"
  /\ Unwrapped("getOrElse", cur.value, [defaultValue |-> defaultValue],
               Maybe_getOrElse(cur, defaultValue))

MaybeValue ==
  /\ cls = "Maybe"
  /\ Unwrapped("value", cur.value, [none |-> TRUE], Maybe_value(cur))

MaybeFilter(predicate) ==
  /\ CanCall("Maybe")
  /\ Returned("filter", [predicate |-> predicate],
              Maybe_filter(cur, predicate))

MaybeExtend(key, fn) ==
  /\ CanCall("Maybe")
  /\ NotArray(cur.value)
  /\ Returned("extend", [key |-> key, fn |-> fn], Maybe_extend(cur, key, fn))

MaybeAssign(fns) ==
  /\ CanCall("Maybe")
  /\ NotArray(cur.value)
  /\ Returned("assign", [fns |-> fns], Maybe_assign(cur, fns))

MaybeFilterMap(fn) ==
  /\ CanCall("Maybe")
  /\ isNothing(cur.value) \/ IsArray(cur.value)
  /\ Returned("filterMap", [fn |-> fn], Maybe_filterMap(cur, fn))

TsMap(fn) ==
  /\ CanCall("MaybeTs")
  /\ Returned("map", [fn |-> fn], MaybeTs_map(cur, fn))

TsFlatMap(fn) ==
  /\ CanCall("MaybeTs")
  /\ Returned("flatMap", [fn |-> fn], MaybeTs_flatMap(cur, fn))

TsFlatMapNested(f, g) ==
  /\ CanCall("MaybeTs")
  /\ Returned("flatMapNested", [f |-> f, g |-> g],
              MaybeTs_flatMap_nested(cur, f, g))

TsWithDefault(defaultValue) ==
  /\ CanCall("MaybeTs")
  /\ Returned("withDefault", [defaultValue |-> defaultValue],
              R(MaybeTs_withDefault(cur, defaultValue), <<>>))

TsExtend(key, fn) ==
  /\ CanCall("MaybeTs")
  /\ NotArray(cur.value)
  /\ Returned("extend", [key |-> key, fn |-> fn],
              MaybeTs_extend(cur, key, fn))

TsFilterMap(fn) ==
  /\ CanCall("MaybeTs")
  /\ Returned("filterMap", [fn |-> fn], MaybeTs_filterMap(cur, fn))

\* ------------------------------------------------------------------------
\* AsyncMaybe combinators
\* ------------------------------------------------------------------------
\* the method is called: it returns a new container whose promise is
\* pending; its body waits for the promise of the receiver
AsyncCall(op, arg) ==
  /\ CanCall("AsyncMaybe")
  /\ op \in {"extend", "assign"} => NotArray(Await(AsyncMaybe_value(cur)))
  /\ frame' = [op |-> op, input |-> Await(AsyncMaybe_value(cur)), arg |-> arg,
               out |-> Null, calls |-> <<>>]
  /\ pc' = "await_source"
  /\ tasks' = <<>>
  /\ events' = <<>>
  /\ prev' = Brief(last)
  /\ last' = NoStep
  /\ UNCHANGED <<cls, cur, got, intact, n>>

\* the promise of the new container is fulfilled with value
Settle(value, calls) ==
  /\ cur' = AsyncMaybe_fromPromise(AsyncReturn(value))
  /\ pc' = "ready"
  /\ n' = n + 1
  /\ last' = Step(frame.op, frame.input, frame.arg, calls)
  /\ frame' = NoFrame
  /\ tasks' = <<>>
  /\ intact' = (intact /\ ReceiverAfter(frame.op, frame.input, frame.arg)
                             = frame.input)
  /\ UNCHANGED <<via, cls, got, prev, events>>

Resuming(op) ==
  pc = "await_source" /\ frame.op = op /\ frame.input.t # "throw"

\* `await this._value` throws in the body of whichever method is running:
\* the promise of the receiver is rejected
AsyncSourceRejected ==
  /\ pc = "await_source" /\ frame.input.t = "throw"
  /\ Settle(frame.input, <<>>)

AsyncWithDefaultResume ==
  /\ Resuming("withDefault")
  /\ Settle(AsyncMaybe_withDefault_body(frame.input, frame.arg.defaultValue),
            <<>>)

AsyncEffectResume ==
  /\ Resuming("effect")
  /\ LET r == AsyncMaybe_effect_body(frame.input, frame.arg.fn)
     IN Settle(r.ret, r.calls)

\* await m.getOrElse(defaultValue): the promise it returned
AsyncGetOrElse(defaultValue) ==
  /\ cls = "AsyncMaybe"
  /\ Unwrapped("getOrElse", Await(AsyncMaybe_value(cur)),
               [defaultValue |-> defaultValue],
               AsyncReturn(AsyncMaybe_getOrElse(Await(AsyncMaybe_value(cur)),
                                                defaultValue)))

\* await m.value(): the promise of the container
AsyncValue_once ==
  /\ cls = "AsyncMaybe"
  /\ Unwrapped("value", Await(AsyncMaybe_value(cur)), [none |-> TRUE],
               IF pc = "done" THEN PromiseOf(Undefined)
               ELSE AsyncMaybe_value(cur))
AsyncValue ==
  /\ cls = "AsyncMaybe"
  /\ Unwrapped("value", Await(AsyncMaybe_value(cur)), [none |-> TRUE],
               AsyncMaybe_value(cur))

AsyncMapResume ==
  /\ Resuming("map")
  /\ LET r == AsyncMaybe_map_body(frame.input, frame.arg.fn)
     IN Settle(r.ret, r.calls)

\* flatMap up to `await fn(v)`
AsyncFlatMapResume ==
  /\ Resuming("flatMap")
  /\ IF isNothing(frame.input)
     THEN Settle(frame.input, <<>>)
     ELSE /\ frame' = [frame EXCEPT
                         !.out = Apply(frame.arg.fn, frame.input),
                         !.calls = <<Call(frame.arg.fn, frame.input)>>]
          /\ pc' = "await_out"
          /\ UNCHANGED <<via, cls, cur, got, intact, n, last, prev, tasks,
                            events>>

AsyncFlatMapSettle ==
  /\ pc = "await_out" /\ frame.op = "flatMap"
  /\ Settle(AsyncMaybe_flatMap_normalize(frame.out), frame.calls)

AsyncFilterResume ==
  /\ Resuming("filter")
  /\ LET r == AsyncMaybe_filter_body(frame.input, frame.arg.predicate)
     IN Settle(r.ret, r.calls)

\* extend: the filter, then the flatMap up to `await fn(obj)`
AsyncExtendResume ==
  /\ Resuming("extend")
  /\ LET obj == AsyncMaybe_extend_filtered(frame.input)
     IN IF isNothing(obj)
        THEN Settle(obj, <<>>)
        ELSE /\ frame' = [frame EXCEPT
                            !.out = Apply(frame.arg.fn, obj),
                            !.calls = <<Call(frame.arg.fn, obj)>>]
             /\ pc' = "await_out"
             /\ UNCHANGED <<via, cls, cur, got, intact, n, last, prev, tasks,
                            events>>

AsyncExtendSettle ==
  /\ pc = "await_out" /\ frame.op = "extend"
  /\ Settle(AsyncMaybe_extend_settle(frame.input, frame.arg.key, frame.out),
            frame.calls)

\* the async functions the map starts, one per entry: fns[i] is called on
\* args[i] at once, and the function then waits for what it returned
Issue(fns, args) ==
  /\ tasks' = [i \in 1..Len(fns) |->
                 IF i \in IssuedByMap(Len(fns))
                 THEN [st |-> "started", out |-> Apply(fns[i], args[i]),
                       res |-> Null]
                 ELSE [st |-> "idle", out |-> Null, res |-> Null]]
  /\ events' = [i \in 1..Cardinality(IssuedByMap(Len(fns))) |->
                  [e |-> "start", i |-> i]]
  /\ frame' = [frame EXCEPT !.calls =
                 [i \in 1..Cardinality(IssuedByMap(Len(fns))) |->
                    Call(fns[i], args[i])]]
  /\ pc' = "tasks"
  /\ UNCHANGED <<via, cls, cur, got, intact, n, last, prev>>

\* the order in which the tasks completed
DoneOrder ==
  LET dones == SelectSeq(events, LAMBDA ev: ev.e = "done")
  IN [i \in 1..Len(dones) |-> dones[i].i]

AllDone_any == \E i \in 1..Len(tasks) : tasks[i].st = "done"
AllDone == \A i \in 1..Len(tasks) : tasks[i].st = "done"

\* Promise.all is settled: every task is fulfilled, or one has rejected
PromiseAllSettled ==
  \/ AllDone
  \/ \E i \in 1..Len(tasks) : tasks[i].st = "done" /\ tasks[i].res.t = "throw"

\* assign: the flatMap callback up to Promise.all(tasks)
AsyncAssignResume ==
  /\ Resuming("assign")
  /\ IF isNothing(frame.input)
     THEN Settle(frame.input, <<>>)
     ELSE IF TypeOf(frame.input) # "object" \/ frame.input.t = "null"
     THEN Settle(AsyncMaybe_flatMap_normalize(AsyncMaybe_fromNullable(Null)),
                 <<>>)
     ELSE Issue([i \in 1..Len(frame.arg.fns) |-> frame.arg.fns[i].fn],
                [i \in 1..Len(frame.arg.fns) |-> frame.input])

\* assign: the promise one entry waits for is fulfilled
AsyncAssignTaskDone(i) ==
  /\ pc = "tasks" /\ frame.op = "assign"
  /\ i \in 1..Len(tasks) /\ tasks[i].st = "started"
  /\ tasks' = [tasks EXCEPT ![i].st = "done",
                 ![i].res = AsyncMaybe_assign_taskResult(tasks[i].out)]
  /\ events' = Append(events, [e |-> "done", i |-> i])
  /\ UNCHANGED <<via, cls, cur, pc, got, intact, n, last, prev, frame>>

\* assign: Promise.all(tasks) is fulfilled
AsyncAssignMerge ==
  /\ pc = "tasks" /\ frame.op = "assign" /\ PromiseAllSettled
  /\ LET results == [i \in 1..Len(tasks) |->
                       [k |-> frame.arg.fns[i].k, v |-> tasks[i].res]]
         rejections ==
           PromiseAll_rejections([i \in 1..Len(tasks) |-> tasks[i].res],
                                 DoneOrder)
     IN Settle(AsyncMaybe_flatMap_normalize(
                 AsyncMaybe_fromPromise(PromiseOf(
                   IF rejections # <<>> THEN rejections[1]
                   ELSE AsyncMaybe_assign_merge(
                          frame.input, PromiseAll(results, DoneOrder))))),
               frame.calls)

\* filterMap up to Promise.all
AsyncFilterMapResume ==
  /\ Resuming("filterMap")
  /\ IF isNothing(frame.input) THEN Settle(frame.input, <<>>)
     ELSE IF ~IsArray(frame.input)
     THEN Settle(AsyncMaybe_filterMap_invalidShape, <<>>)
     ELSE Issue([i \in 1..Len(frame.input.e) |-> frame.arg.fn],
                frame.input.e)

\* filterMap: the promises one element waits for are fulfilled
AsyncFilterMapTaskDone(i) ==
  /\ pc = "tasks" /\ frame.op = "filterMap"
  /\ i \in 1..Len(tasks) /\ tasks[i].st = "started"
  /\ tasks' = [tasks EXCEPT ![i].st = "done",
                 ![i].res = AsyncMaybe_flatMap_normalize(tasks[i].out)]
  /\ events' = Append(events, [e |-> "done", i |-> i])
  /\ UNCHANGED <<via, cls, cur, pc, got, intact, n, last, prev, frame>>

\* filterMap: Promise.all is fulfilled
AsyncFilterMapCollect ==
  /\ pc = "tasks" /\ frame.op = "filterMap" /\ PromiseAllSettled
  /\ LET results == [i \in 1..Len(tasks) |-> tasks[i].res]
         rejections == PromiseAll_rejections(results, DoneOrder)
     IN Settle(IF rejections # <<>> THEN rejections[1]
               ELSE AsyncMaybe_filterMap_keep(PromiseAll(results, DoneOrder)),
               frame.calls)

\* first up to the for .. of loop: fn(value) hands back the candidates; the
\* promise of an AsyncMaybe candidate is still pending, a Maybe has its value
AsyncFirstResume ==
  /\ Resuming("first")
  /\ IF isNothing(frame.input)
     THEN Settle(frame.input, <<>>)
     ELSE LET maybes == frame.arg.fn.list
          IN /\ tasks' = [i \in 1..Len(maybes) |->
                            IF maybes[i].t = "Maybe"
                            THEN [st |-> "done", out |-> maybes[i],
                                  res |-> Maybe_value(maybes[i])]
                            ELSE [st |-> "started", out |-> maybes[i],
                                  res |-> Null]]
             /\ frame' = [frame EXCEPT
                            !.out = Num(1),
                            !.calls = <<Call(frame.arg.fn, frame.input)>>]
             /\ pc' = "first_loop"
             /\ UNCHANGED <<via, cls, cur, got, intact, n, last, prev, events>>

\* first: the promise of candidate i is fulfilled
AsyncFirstCandidateDone(i) ==
  /\ pc = "first_loop"
  /\ i \in 1..Len(tasks) /\ tasks[i].st = "started"
  /\ tasks' = [tasks EXCEPT ![i].st = "done",
                 ![i].res = Await(AsyncMaybe_value(tasks[i].out))]
  /\ events' = Append(events, [e |-> "done", i |-> i])
  /\ UNCHANGED <<via, cls, cur, pc, got, intact, n, last, prev, frame>>

\* first: one turn of the loop; frame.out is the index of the candidate
\* `await Promise.resolve(m.value())` waits for
AsyncFirstStep ==
  /\ pc = "first_loop"
  /\ LET k == frame.out.n
     IN IF k > Len(tasks)
        THEN Settle(Null, frame.calls)
        ELSE /\ tasks[k].st = "done"
             /\ IF AsyncMaybe_first_found(tasks[k].res)
                THEN Settle(tasks[k].res, frame.calls)
                ELSE /\ frame' = [frame EXCEPT !.out = Num(k + 1)]
                     /\ UNCHANGED <<via, cls, cur, pc, got, intact, n, last, prev,
                                    tasks, events>>

\* the combinator is called as a method of the container: m.op(args)
ByMethod == via' = "method"

\* m.op(args) for a Maybe m: the method the name op selects
MaybeDispatch(op, arg) ==
  \/ op = "map" /\ MaybeMap(arg.fn)
  \/ op = "flatMap" /\ MaybeFlatMap(arg.fn)
  \/ op = "filter" /\ MaybeFilter(arg.predicate)
  \/ op = "filterMap" /\ MaybeFilterMap(arg.fn)
  \/ op = "extend" /\ MaybeExtend(arg.key, arg.fn)
  \/ op = "assign" /\ MaybeAssign(arg.fns)
  \/ op = "withDefault" /\ MaybeWithDefault(arg.defaultValue)
  \/ op = "getOrElse" /\ MaybeGetOrElse(arg.defaultValue)
  \/ op = "effect" /\ MaybeEffect(arg.fn)

\* m.op(args) for an AsyncMaybe m
AsyncDispatch(op, arg) ==
  \/ op = "getOrElse" /\ AsyncGetOrElse(arg.defaultValue)
  \/ op # "getOrElse" /\ AsyncCall(op, arg)

\* the free function name(args) returns (m) => m.name(args): the method it
\* calls on the container, and the arguments it passes on
functional_swapped(name, args) ==
  [op |-> IF name = "withDefault" THEN "getOrElse"
          ELSE IF name = "getOrElse" THEN "withDefault"
          ELSE name,
   arg |-> args]
functional(name, args) == [op |-> name, arg |-> args]

\* name(args)(m) for a Maybe m
FunctionalMaybe(name, args) ==
  /\ MaybeDispatch(functional(name, args).op, functional(name, args).arg)
  /\ via' = name

\* name(args)(m) for an AsyncMaybe m
FunctionalAsync(name, args) ==
  /\ AsyncDispatch(functional(name, args).op, functional(name, args).arg)
  /\ via' = name

Next ==
  \/ \E fn \in MapFns : MaybeMap(fn) /\ ByMethod
  \/ \E fn \in MaybeFns : MaybeFlatMap(fn) /\ ByMethod
  \/ \E p \in Predicates : MaybeFilter(p) /\ ByMethod
  \/ \E k \in Keys, fn \in PropertyFns : MaybeExtend(k, fn) /\ ByMethod
  \/ \E fns \in EntriesOf(AssignFns) : MaybeAssign(fns) /\ ByMethod
  \/ \E fn \in ElementFns : MaybeFilterMap(fn) /\ ByMethod
  \/ \E fn \in MapFns : TsMap(fn) /\ ByMethod
  \/ \E fn \in MaybeFns : TsFlatMap(fn) /\ ByMethod
  \/ \E k \in Keys, fn \in PropertyFns : TsExtend(k, fn) /\ ByMethod
  \/ \E fn \in ElementFns : TsFilterMap(fn) /\ ByMethod
  \/ \E f \in MaybeFns, g \in MaybeFns : MaybeFlatMapNested(f, g) /\ ByMethod
  \/ \E d \in Defaults : MaybeWithDefault(d) /\ ByMethod
  \/ \E fn \in EffectFns : MaybeEffect(fn) /\ ByMethod
  \/ \E d \in ElseDefaults : MaybeGetOrElse(d) /\ ByMethod
  \/ MaybeValue /\ ByMethod
  \/ \E f \in MaybeFns, g \in MaybeFns : TsFlatMapNested(f, g) /\ ByMethod
  \/ \E d \in Defaults : TsWithDefault(d) /\ ByMethod
  \/ \E fn \in AsyncMapFns : AsyncCall("map", [fn |-> fn]) /\ ByMethod
  \/ \E d \in Defaults :
       AsyncCall("withDefault", [defaultValue |-> d]) /\ ByMethod
  \/ \E fn \in AsyncEffectFns : AsyncCall("effect", [fn |-> fn]) /\ ByMethod
  \/ AsyncSourceRejected
  \/ AsyncWithDefaultResume
  \/ AsyncEffectResume
  \/ \E d \in ElseDefaults : AsyncGetOrElse(d) /\ ByMethod
  \/ AsyncValue /\ ByMethod
  \/ \E fn \in AsyncFns \cup NestedFns :
       AsyncCall("flatMap", [fn |-> fn]) /\ ByMethod
  \/ \E p \in AsyncPredicates : AsyncCall("filter", [predicate |-> p])
       /\ ByMethod
  \/ \E k \in Keys, fn \in AsyncPropertyFns :
       AsyncCall("extend", [key |-> k, fn |-> fn]) /\ ByMethod
  \/ \E fns \in EntriesOf(AsyncAssignFns) :
       AsyncCall("assign", [fns |-> fns]) /\ ByMethod
  \/ \E fn \in AsyncElementFns : AsyncCall("filterMap", [fn |-> fn])
       /\ ByMethod
  \/ AsyncMapResume
  \/ AsyncFlatMapResume
  \/ AsyncFlatMapSettle
  \/ AsyncFilterResume
  \/ AsyncExtendResume
  \/ AsyncExtendSettle
  \/ AsyncAssignResume
  \/ \E i \in 1..Cardinality(Keys) : AsyncAssignTaskDone(i)
  \/ AsyncAssignMerge
  \/ AsyncFilterMapResume
  \/ \E i \in 1..MaxLen : AsyncFilterMapTaskDone(i)
  \/ AsyncFilterMapCollect
  \/ \E fn \in CandidateFns : AsyncCall("first", [fn |-> fn]) /\ ByMethod
  \/ AsyncFirstResume
  \/ \E i \in 1..MaxLen : AsyncFirstCandidateDone(i)
  \/ AsyncFirstStep
  \/ \E c \in FunctionalMaybeCalls : FunctionalMaybe(c.name, c.arg)
  \/ \E c \in FunctionalAsyncCalls : FunctionalAsync(c.name, c.arg)

Spec == Init /\ [][Next]_vars

\* ------------------------------------------------------------------------
\* Properties
\* ------------------------------------------------------------------------
\* null or undefined
Sentinel(v) == v = Null \/ v = Undefined

\* a payload: neither a sentinel nor the error of a rejected promise
Present(v) == ~Sentinel(v) /\ v.t # "throw"

\* what value() of the container returns, or resolves to
Value(c) == IF c.t = "AsyncMaybe" THEN Await(c.value) ELSE c.value

\* the value a callback computes, whatever shape it hands it back in
Payload(fn, v) == Body(fn.body, v)

\* C1: map and flatMap on an absent container return the very sentinel the
\* container was built from and never invoke the callback, in Maybe and in
\* AsyncMaybe.
C1_AbsentMapFlatMap ==
  (last.op \in {"map", "flatMap"} /\ Sentinel(last.input))
    => (Value(cur) = last.input /\ last.calls = <<>>)

C1_Witness ==
  /\ cls = "AsyncMaybe" /\ pc = "ready"
  /\ last.op = "flatMap" /\ last.input = Undefined
  /\ Value(cur) = Undefined

\* C2: AsyncMaybe.flatMap on a present source resolves to the value x the
\* callback computed, whether the callback returned x raw, in a Maybe, in an
\* AsyncMaybe, or a Promise of any of the three; x is not itself a container.
C2_FlatMapNormalizes ==
  (/\ cls = "AsyncMaybe" /\ last.op = "flatMap" /\ Present(last.input)
   /\ last.arg.fn.shape \in Shapes
   /\ Payload(last.arg.fn, last.input).t \notin {"Maybe", "AsyncMaybe"})
    => /\ Value(cur) = Payload(last.arg.fn, last.input)
       /\ last.calls = <<Call(last.arg.fn, last.input)>>

C2_Witness ==
  /\ cls = "AsyncMaybe" /\ last.op = "flatMap" /\ last.input = Num(0)
  /\ last.arg.fn = Cb("PromiseMaybe", "inc")
  /\ Value(cur) = Num(1)

\* the entries of the AsyncMaybe.assign the recorded events belong to
AssignEntries ==
  IF cls # "AsyncMaybe" THEN <<>>
  ELSE IF frame.op = "assign" THEN frame.arg.fns
  ELSE IF frame.op = "none" /\ last.op = "assign" THEN last.arg.fns
  ELSE <<>>

\* C3: in AsyncMaybe.assign on a present record every entry function has been
\* called before the computation of any entry completes.
C3_AssignIssuesAllFirst ==
  \A p \in 1..Len(events) :
    (AssignEntries # <<>> /\ events[p].e = "done")
      => \A i \in 1..Len(AssignEntries) :
           \E q \in 1..(p - 1) : events[q] = [e |-> "start", i |-> i]

C3_Witness ==
  /\ cls = "AsyncMaybe" /\ pc = "tasks" /\ frame.op = "assign"
  /\ Len(tasks) = 2
  /\ tasks[1].st = "started" /\ tasks[2].st = "done"
  /\ Len(frame.calls) = 2

\* the payloads of the present results of fn over arr, in element order
RECURSIVE KeptPayloads(_, _)
KeptPayloads(arr, fn) ==
  IF arr = <<>> THEN <<>>
  ELSE LET x == Payload(fn, Head(arr))
       IN (IF Sentinel(x) THEN <<>> ELSE <<x>>) \o KeptPayloads(Tail(arr), fn)

\* C4: filterMap on a present sequence calls f on every element and yields a
\* present sequence of the payloads of the present results in element order
\* (empty when all are dropped); for AsyncMaybe whatever the completion order.
\* The synchronous callback returns a Maybe.
C4_FilterMapKeepsPresentInOrder ==
  (/\ last.op = "filterMap" /\ IsArray(last.input)
   /\ cls \in {"Maybe", "MaybeTs"} => last.arg.fn.shape = "Maybe"
   /\ last.arg.fn.body # "throw")
    => /\ Value(cur) = Arr(KeptPayloads(last.input.e, last.arg.fn))
       /\ last.calls = [i \in 1..Len(last.input.e) |->
                          Call(last.arg.fn, last.input.e[i])]

C4_Witness ==
  /\ cls = "AsyncMaybe" /\ last.op = "filterMap"
  /\ last.input = Arr(<<Num(1), Num(2)>>)
  /\ last.arg.fn.body = "id"
  /\ DoneOrder = <<2, 1>>
  /\ Value(cur) = Arr(<<Num(1), Num(2)>>)

\* C5: the synchronous filterMap throws whenever the callback returns
\* something that is not a Maybe for some element of a present sequence.
C5_SyncFilterMapThrows ==
  (/\ cls \in {"Maybe", "MaybeTs"}
   /\ last.op = "filterMap" /\ IsArray(last.input)
   /\ \E i \in 1..Len(last.input.e) :
        Apply(last.arg.fn, last.input.e[i]).t # "Maybe")
    => cur.t = "throw"

C7_SyncAbsentPreserved ==
  (/\ cls = "Maybe"
   /\ last.op \in {"filter", "extend", "assign", "filterMap"}
   /\ Sentinel(last.input))
    => (Value(cur) = last.input /\ last.calls = <<>>)

\* C8: in AsyncMaybe, filter, extend, assign and filterMap on a container
\* resolving to null or undefined resolve to that same sentinel and invoke
\* no callback.
C8_AsyncAbsentPreserved ==
  (/\ cls = "AsyncMaybe"
   /\ last.op \in {"filter", "extend", "assign", "filterMap"}
   /\ Sentinel(last.input))
    => (Value(cur) = last.input /\ last.calls = <<>>)

C8_Witness ==
  /\ cls = "AsyncMaybe" /\ pc = "ready"
  /\ last.op = "assign" /\ last.input = Undefined
  /\ Value(cur) = Undefined

ExtendGotAbsent(s) ==
  /\ s.op = "extend" /\ s.input.t = "object"
  /\ Sentinel(Payload(s.arg.fn, s.input))

\* the same of the combinator before the last
ExtendGotAbsentBefore ==
  /\ prev.op = "extend" /\ prev.onRecord
  /\ prev.payload \in {"null", "undefined"}

\* C10: extend on a present record whose f-result is absent yields an absent
\* container, the callback of a following map is not invoked, and in
\* AsyncMaybe the absent result is null whichever sentinel f produced.
C10_ExtendAbsentResult ==
  /\ ExtendGotAbsent(last)
       => /\ Sentinel(Value(cur))
          /\ cls = "AsyncMaybe" => Value(cur) = Null
  /\ (last.op = "map" /\ ExtendGotAbsentBefore) => last.calls = <<>>

C10_Witness ==
  /\ cls = "AsyncMaybe" /\ last.op = "map"
  /\ ExtendGotAbsentBefore /\ prev.payload = "undefined"
  /\ Value(cur) = Null /\ last.calls = <<>>

\* the keys of the entries handed to assign
EntryKeys(fns) == {fns[i].k : i \in 1..Len(fns)}

\* the payload the entry of key k computes from the record r
EntryPayload(fns, k, r) ==
  LET i == CHOOSE j \in 1..Len(fns) : fns[j].k = k
  IN Payload(fns[i].fn, r)

\* r with one property per entry key holding that entry's payload
Merged(r, fns) ==
  Obj([k \in (DOMAIN r.f) \cup EntryKeys(fns) |->
         IF k \in EntryKeys(fns) THEN EntryPayload(fns, k, r) ELSE r.f[k]])

\* every entry function hands back a container (or a promise of one) and
\* none throws
EntriesReturnContainers(fns, r) ==
  \A i \in 1..Len(fns) :
    fns[i].fn.shape # "raw" /\ Payload(fns[i].fn, r).t # "throw"

\* C11: on a present record, when every entry function yields a present
\* value, assign yields the record plus one property per entry key holding
\* that entry's payload, every other property kept; extend does the same for
\* its key; in Maybe and in AsyncMaybe.  The entry functions of assign return
\* containers.
C11_AssignExtendMerge ==
  /\ (/\ cls \in {"Maybe", "AsyncMaybe"}
      /\ last.op = "assign" /\ last.input.t = "object"
      /\ EntriesReturnContainers(last.arg.fns, last.input)
      /\ \A i \in 1..Len(last.arg.fns) :
           Present(Payload(last.arg.fns[i].fn, last.input)))
       => Value(cur) = Merged(last.input, last.arg.fns)
  /\ (/\ cls \in {"Maybe", "AsyncMaybe"}
      /\ last.op = "extend" /\ last.input.t = "object"
      /\ Present(Payload(last.arg.fn, last.input)))
       => Value(cur) =
            Merged(last.input, <<[k |-> last.arg.key, fn |-> last.arg.fn]>>)

C11_Witness ==
  /\ cls = "AsyncMaybe" /\ last.op = "assign"
  /\ last.input = Obj([id |-> Num(1)])
  /\ Len(last.arg.fns) = 2
  /\ Value(cur) = Obj([id |-> Num(1), a |-> Num(1), b |-> Num(1)])

\* C12: assign yields an absent container when the base is absent, when it is
\* present but not a record, and when some entry function yields an absent
\* result while the others yield containers; in Maybe and in AsyncMaybe.
C12_AssignShortCircuits ==
  (/\ cls \in {"Maybe", "AsyncMaybe"}
   /\ last.op = "assign" /\ last.input.t # "throw"
   /\ \/ Sentinel(last.input)
      \/ TypeOf(last.input) # "object"
      \/ /\ EntriesReturnContainers(last.arg.fns, last.input)
         /\ \E i \in 1..Len(last.arg.fns) :
              Sentinel(Payload(last.arg.fns[i].fn, last.input)))
    => Sentinel(Value(cur))

C12_Witness ==
  /\ cls = "AsyncMaybe" /\ last.op = "assign"
  /\ last.input.t = "object"
  /\ Len(last.arg.fns) = 2
  /\ last.arg.fns[1].fn = Cb("Maybe", "one")
  /\ last.arg.fns[2].fn = Cb("AsyncMaybe", "undefined")
  /\ Value(cur) = Null

\* C13: in AsyncMaybe.assign an entry function returning a raw value that is
\* not a sentinel contributes that value as a property of the merged record.
C13_AssignNormalizesRaw ==
  (/\ cls = "AsyncMaybe"
   /\ last.op = "assign" /\ last.input.t = "object"
   /\ \A i \in 1..Len(last.arg.fns) :
        Present(Payload(last.arg.fns[i].fn, last.input))
   /\ \E i \in 1..Len(last.arg.fns) : last.arg.fns[i].fn.shape = "raw")
    => Value(cur) = Merged(last.input, last.arg.fns)

C15_LazyUntilForced ==
  (cls = "AsyncMaybe" /\ pc # "done")
    => /\ last.calls = <<>> /\ frame.calls = <<>>
       /\ pc = "ready" => Value(cur).t # "throw"

\* a callback invoked by the combinator s threw, or returned a promise that
\* is rejected
CallbackThrew(s) ==
  IF s.op = "filter"
  THEN s.calls # <<>> /\ PredicateThrows(s.arg.predicate)
  ELSE \E i \in 1..Len(s.calls) :
         Payload(s.calls[i].fn, s.calls[i].arg).t = "throw"

\* the combinators of AsyncMaybe that take a callback
AsyncCombinators ==
  {"map", "flatMap", "filter", "extend", "assign", "filterMap", "effect"}

\* C16: in AsyncMaybe a combinator whose callback throws or returns a
\* rejected promise still returns a container; the promise of that container
\* is rejected with the error; a downstream combinator invokes no callback
\* and its container is rejected with the same error; and value() and
\* getOrElse return a promise rejected with it.
C16_CallbackErrorPropagates ==
  cls = "AsyncMaybe" =>
    /\ pc # "thrown"
    /\ cur.t = "AsyncMaybe"
    /\ (/\ last.op \in AsyncCombinators /\ CallbackThrew(last)
        /\ last.op = "assign" =>
             \A i \in 1..Len(last.arg.fns) : last.arg.fns[i].fn.shape # "raw")
         => Value(cur) = Thrown("boom")
    /\ (last.op \in AsyncCombinators \cup {"withDefault"}
        /\ last.input.t = "throw")
         => (last.calls = <<>> /\ Value(cur) = last.input)
    /\ (last.op \in {"value", "getOrElse"} /\ last.input.t = "throw")
         => got = Rejected(last.input.e)

C16_Witness ==
  /\ cls = "AsyncMaybe" /\ pc = "done"
  /\ last.op = "getOrElse" /\ last.input = Thrown("boom")
  /\ prev.op = "map" /\ prev.rejected
  /\ got = Rejected("boom")

\* what value() / getOrElse returned, or the promise they returned resolved to
Got == IF cls = "AsyncMaybe" THEN Await(got) ELSE got

\* C17: withDefault(d) holds the payload of a present receiver and d when the
\* receiver is absent (null or undefined); getOrElse(d) returns what
\* withDefault(d).value() returns; for AsyncMaybe of the resolved values.
C17_WithDefaultGetOrElse ==
  /\ (/\ cls \in {"Maybe", "AsyncMaybe"}
      /\ last.op = "withDefault" /\ last.input.t # "throw")
       => Value(cur) = IF Sentinel(last.input) THEN last.arg.defaultValue
                       ELSE last.input
  /\ (/\ cls \in {"Maybe", "AsyncMaybe"}
      /\ last.op = "getOrElse" /\ last.input.t # "throw")
       => /\ Got = IF Sentinel(last.input) THEN last.arg.defaultValue
                   ELSE last.input
          /\ cls = "Maybe" =>
               Got = Maybe_value(Maybe_withDefault(Maybe_fromNullable(last.input),
                                                   last.arg.defaultValue))
          /\ cls = "AsyncMaybe" =>
               Got = AsyncMaybe_withDefault_body(last.input,
                                                 last.arg.defaultValue)

C17_Witness ==
  /\ cls = "AsyncMaybe" /\ pc = "done" /\ last.op = "getOrElse"
  /\ last.input = Undefined /\ last.arg.defaultValue = Num(9)
  /\ Got = Num(9)

\* C18: effect(f) invokes f once with the payload of a present container and
\* never for an absent one, and the container it returns holds the original
\* payload or sentinel whatever f returns; in Maybe and in AsyncMaybe.
C18_EffectKeepsValue ==
  (/\ cls \in {"Maybe", "AsyncMaybe"}
   /\ last.op = "effect" /\ last.input.t # "throw")
    => /\ last.calls = IF Sentinel(last.input) THEN <<>>
                       ELSE <<Call(last.arg.fn, last.input)>>
       /\ ~CallbackThrew(last) => Value(cur) = last.input

C18_Witness ==
  /\ cls = "AsyncMaybe" /\ last.op = "effect"
  /\ last.input = Num(1) /\ last.arg.fn = Cb("PromiseRaw", "undefined")
  /\ last.calls = <<Call(last.arg.fn, Num(1))>>
  /\ Value(cur) = Num(1)

\* m.flatMap(f).flatMap(g).value() by the flatMap of the class of the chain
FlatMapTwice(v, f, g) ==
  IF cls = "MaybeTs"
  THEN Maybe_value(MaybeTs_flatMap(MaybeTs_flatMap(MaybeTs_of(v), f).ret, g).ret)
  ELSE Maybe_value(Maybe_flatMap(Maybe_flatMap(Maybe_fromNullable(v), f).ret,
                                 g).ret)

\* C19: for a present synchronous m and Maybe-returning f and g,
\* m.flatMap(x => f(x).flatMap(g)).value() equals
\* m.flatMap(f).flatMap(g).value(), sentinel included.
C19_FlatMapAssociative ==
  (/\ cls \in {"Maybe", "MaybeTs"}
   /\ last.op = "flatMapNested" /\ Present(last.input))
    => Value(cur) = FlatMapTwice(last.input, last.arg.f, last.arg.g)

C19_Witness ==
  /\ cls = "Maybe" /\ last.op = "flatMapNested"
  /\ last.input = Num(1)
  /\ last.arg.f = Cb("Maybe", "inc") /\ last.arg.g = Cb("Maybe", "undefined")
  /\ Value(cur) = Undefined

\* C20: AsyncMaybe.fromMaybe(Maybe.fromNullable(x)) resolves to x, and so
\* does the promise its value() returns: to the payload for a present x, to
\* null for null and to undefined for undefined.
C20_LiftRoundTrip ==
  /\ (cls = "AsyncMaybe" /\ last.op = "fromMaybe")
       => cur.value = PromiseOf(last.input)
  /\ (cls = "AsyncMaybe" /\ last.op = "value" /\ prev.op = "fromMaybe")
       => got = PromiseOf(last.input)

C20_Witness ==
  /\ cls = "AsyncMaybe" /\ pc = "done"
  /\ last.op = "value" /\ prev.op = "fromMaybe"
  /\ got = PromiseOf(Undefined)

\* C21: the normalization of AsyncMaybe.flatMap unwraps one container level:
\* when the callback returns an AsyncMaybe whose payload is a Maybe, or a
\* Maybe whose payload is an AsyncMaybe, the result resolves to that inner
\* container, which is not unwrapped again.
C21_NormalizeOneLevel ==
  (cls = "AsyncMaybe" /\ last.op = "flatMap" /\ Present(last.input))
    => /\ last.arg.fn.shape = "AsyncMaybeOfMaybe" =>
            Value(cur) = Maybe_fromNullable(Payload(last.arg.fn, last.input))
       /\ last.arg.fn.shape = "MaybeOfAsyncMaybe" =>
            Value(cur) =
              AsyncMaybe_fromNullable(Payload(last.arg.fn, last.input))

C21_Witness ==
  /\ cls = "AsyncMaybe" /\ pc = "ready" /\ last.op = "flatMap"
  /\ last.input = Num(1)
  /\ last.arg.fn = Cb("AsyncMaybeOfMaybe", "one")
  /\ Value(cur) = MaybeOf(Num(1))

\* the falsy values that are not sentinels
Falsy == {Num(0), Str(""), Bool(FALSE)}

\* C24: 0, '' and false are present: map, flatMap, filter and effect invoke
\* their callback on them, once, and withDefault and getOrElse give them
\* back rather than the default; in both Maybe versions and in AsyncMaybe.
C24_FalsyIsPresent ==
  (last.input \in Falsy)
    => /\ last.op \in {"map", "flatMap", "effect"} =>
            last.calls = <<Call(last.arg.fn, last.input)>>
       /\ last.op = "filter" =>
            last.calls = <<Call(last.arg.predicate, last.input)>>
       /\ last.op = "withDefault" => Value(cur) = last.input
       /\ last.op = "getOrElse" => Got = last.input

C24_Witness ==
  /\ cls = "Maybe" /\ pc = "done" /\ last.op = "getOrElse"
  /\ last.input = Num(0) /\ last.arg.defaultValue = Num(9)
  /\ got = Num(0)

\* C25: the container built by Maybe.of(null) or Maybe.of(undefined) is
\* handled as present by the operation applied to it: map invokes its
\* callback on the value and withDefault keeps the value.
C25_OfIsAlwaysJust ==
  (cls = "MaybeTs" /\ prev.op = "of" /\ n = 1)
    => /\ last.op = "map" => last.calls = <<Call(last.arg.fn, last.input)>>
       /\ last.op = "withDefault" => Value(cur) = last.input

\* value() or getOrElse was called on the chain, and is called once more
ForcedAgain == cls = "AsyncMaybe" /\ pc = "done" /\ pc' = "done"

\* C26: value() and getOrElse may be called on an AsyncMaybe chain any number
\* of times, in any interleaving: every call sees the same settled value, the
\* same call gives the same result as the time before, and none runs a
\* callback of the chain or starts a computation again.
C26_RepeatedForce ==
  [][ForcedAgain
        => /\ cur' = cur
           /\ last'.input = last.input
           /\ last'.calls = <<>>
           /\ frame' = frame /\ tasks' = tasks /\ n' = n
           /\ (last'.op = last.op /\ last'.arg = last.arg) => got' = got
           /\ last'.op = "value" => got' = cur.value]_vars

C26_Witness ==
  /\ cls = "AsyncMaybe" /\ pc = "done" /\ n = 1
  /\ prev.op = "value" /\ last.op = "value"
  /\ got = PromiseOf(Num(2))

EntryDone(i) == \E q \in 1..Len(events) : events[q] = [e |-> "done", i |-> i]

Reversed(fns) == [i \in 1..Len(fns) |-> fns[Len(fns) + 1 - i]]

\* C29: the synchronous assign hands every entry function the base record,
\* and value() of its result, sentinel included, is the same when the
\* entries are listed in the opposite order.
C29_AssignOrderIndependent ==
  (cls = "Maybe" /\ last.op = "assign" /\ last.input.t = "object")
    => /\ \A i \in 1..Len(last.calls) : last.calls[i].arg = last.input
       /\ Value(cur) =
            Value(Maybe_assign(MaybeOf(last.input),
                               Reversed(last.arg.fns)).ret)

\* the payload of the lowest-index present candidate, null when there is none
FirstPresent(maybes) ==
  LET present == {i \in 1..Len(maybes) : Present(Value(maybes[i]))}
  IN IF present = {} THEN Null
     ELSE Value(maybes[CHOOSE i \in present : \A j \in present : i <= j])

\* C30: AsyncMaybe.first(fn) on a present value calls fn once and resolves to
\* the payload of the lowest-index present candidate, whatever order the
\* candidates completed in, and to null when no candidate is present; on an
\* absent source it resolves to the sentinel of the source and fn is not
\* called.
C30_FirstLowestIndex ==
  (cls = "AsyncMaybe" /\ last.op = "first" /\ last.input.t # "throw")
    => IF Sentinel(last.input)
       THEN Value(cur) = last.input /\ last.calls = <<>>
       ELSE /\ last.calls = <<Call(last.arg.fn, last.input)>>
            /\ Value(cur) = FirstPresent(last.arg.fn.list)

C30_Witness ==
  /\ cls = "AsyncMaybe" /\ pc = "ready" /\ last.op = "first"
  /\ Present(last.input)
  /\ last.arg.fn.list =
       <<AsyncMaybe_fromNullable(Num(1)), AsyncMaybe_fromNullable(Num(2))>>
  /\ DoneOrder = <<2, 1>>
  /\ Value(cur) = Num(1)

\* the arguments of the call a step makes
CalledWith == IF pc' = "await_source" THEN frame'.arg ELSE last'.arg

\* C22: the combinator layer forwards: applying the free function op(args)
\* to a container m, a Maybe or an AsyncMaybe, present or absent, is the
\* very step m.op(args) takes, for map, flatMap, filter, filterMap, extend,
\* assign, withDefault, getOrElse and effect: same returned container or
\* value, same callback invocations, same computation started.
C22_PureForwarding ==
  [][(pc \in {"ready", "done"} /\ via' # "method")
       => IF cls = "AsyncMaybe" THEN AsyncDispatch(via', CalledWith)
          ELSE MaybeDispatch(via', CalledWith)]_vars

C22_Witness ==
  /\ cls = "AsyncMaybe" /\ pc = "ready" /\ via = "flatMap"
  /\ last.op = "flatMap" /\ last.input = Num(1)
  /\ last.arg.fn = Cb("PromiseMaybe", "inc")
  /\ Value(cur) = Num(2)

\* every callback of the call returns an AsyncMaybe
ReturnsAsyncMaybe(s) ==
  IF s.op = "assign"
  THEN \A i \in 1..Len(s.arg.fns) : s.arg.fns[i].fn.shape = "AsyncMaybe"
  ELSE s.arg.fn.shape = "AsyncMaybe"

\* C23: the free functions flatMap, extend and assign, given callbacks that
\* return an AsyncMaybe and applied to a synchronous Maybe of the declared
\* type (any Maybe for flatMap, a Maybe of a record for extend and assign),
\* present or absent, return an AsyncMaybe instance.
C23_LiftsToAsyncMaybe ==
  (/\ cls = "Maybe" /\ via \in {"flatMap", "extend", "assign"}
   /\ last.op = via /\ ReturnsAsyncMaybe(last)
   /\ last.op \in {"extend", "assign"} =>
        (Sentinel(last.input) \/ last.input.t = "object"))
    => cur.t = "AsyncMaybe"

====
